---- MODULE Spec2Model ----
(***************************************************************************)
(* Model of the totpdb package (encrypted TOTP record store) and of the    *)
(* add-url / add-qrc / remove commands of the totp command line tool.      *)
(*                                                                         *)
(*   Spec      the in-memory collection: AddEntry, FindEntry, GetEntry,    *)
(*             RemoveEntry on one TOTPData value, starting from TOTPData{} *)
(*   SpecStore WriteCBORSec / ReadCBORSec calls on one path, each run to   *)
(*             its end                                                     *)
(*   SpecCrash one WriteCBORSec call taken step by step (open with         *)
(*             truncation, write, close) so that it can be interrupted     *)
(*   SpecConc  two command invocations on the same path, no locking        *)
(*   SpecPath  the database path a command resolves from the -d flag, the  *)
(*             environment and the default                                 *)
(***************************************************************************)
EXTENDS Integers, Sequences, FiniteSets, TLC

VARIABLES
    data,    \* Spec: the TOTPData value the methods are called on
    ret,     \* Spec: what the last method call was given and returned
    file,    \* SpecStore, SpecCrash, SpecConc: the content of the database path
    wr,      \* SpecCrash: the WriteCBORSec call in progress
    saved,   \* SpecStore: the last WriteCBORSec call that returned nil
    rd,      \* SpecStore: what the last ReadCBORSec call was given and returned
    inv,     \* SpecConc: the state of each command invocation
    order,   \* SpecConc: invocations in the order their WriteCBORSec wrote the file
    cli      \* SpecPath: environment, flags and resolved path of one command

vars == <<data, ret, file, wr, saved, rd, inv, order, cli>>

(***************************************************************************)
(* Bounds of the model.                                                    *)
(***************************************************************************)
MaxEntries == 3        \* Spec: longest collection built by AddEntry
MaxStoreEntries == 1   \* SpecStore: longest collection given to WriteCBORSec
MaxNonce == 2          \* number of distinct values the random nonce takes

(***************************************************************************)
(* Errors.                                                                 *)
(***************************************************************************)
ErrNone == "nil"
ErrEntryExists == "TOTP entry already exists"
ErrEntryNotFound == "TOTP entry not found"

(***************************************************************************)
(* Records.                                                                *)
(***************************************************************************)
AccountNames == {"alice", "bob"}
Issuers == {"", "GitHub", "Okta"}

\* The values of otp.Key the commands pass in: what its accessors return.
OTPKey(issuer, account, secret) ==
    [issuer |-> issuer, accountName |-> account, secret |-> secret,
     type |-> "totp", period |-> 30, digits |-> 6, algorithm |-> 0,
     url |-> "otpauth://totp"]

\* every (issuer, account) pair with the first secret, and one pair with a
\* second secret
OTPKeys ==
    {OTPKey(i, a, "JBSWY3DPEHPK3PXP") : i \in Issuers, a \in AccountNames}
    \cup {OTPKey("GitHub", "alice", "KRUGS4ZANFZSAYJA"), OTPKey("", "bob", "KRUGS4ZANFZSAYJA")}

\* otp.Algorithm.String()
AlgorithmString(alg) ==
    CASE alg = 0 -> "SHA1"
      [] alg = 1 -> "SHA256"
      [] alg = 2 -> "SHA512"
      [] alg = 3 -> "MD5"
      [] OTHER -> "unknown"

\* TOTPEntry{}: the zero value
ZeroEntry ==
    [Issuer |-> "", AccountName |-> "", Secret |-> "", Type |-> "",
     Period |-> 0, Digits |-> 0, Algorithm |-> "", URL |-> ""]

FromOTPKey(k) ==
    [Issuer |-> k.issuer, AccountName |-> k.accountName, Secret |-> k.secret,
     Type |-> k.type, Period |-> k.period, Digits |-> k.digits,
     Algorithm |-> AlgorithmString(k.algorithm), URL |-> k.url]

\* TOTPData{}: Entries is a nil slice
ZeroData == [nil |-> TRUE, Entries |-> <<>>]

(***************************************************************************)
(* The methods of TOTPData, as functions of the value they are called on.  *)
(* Indexes are Go's: the first entry has index 0.                          *)
(***************************************************************************)
RECURSIVE FindFrom(_, _, _, _)
\* the loop of FindEntry from index ind on
FindFrom(entries, ind, name, issuer) ==
    IF ind >= Len(entries) THEN [ind |-> -1, err |-> ErrEntryNotFound]
    ELSE IF entries[ind + 1].AccountName = name
            /\ (issuer = "" \/ entries[ind + 1].Issuer = issuer)
         THEN [ind |-> ind, err |-> ErrNone]
         ELSE FindFrom(entries, ind + 1, name, issuer)

\* FindEntry comparing the issuer also when the issuer asked for is empty
FindEntryExactIssuer(d, name, issuer) ==
    LET M == {k \in 0..(Len(d.Entries) - 1) :
                 /\ d.Entries[k + 1].AccountName = name
                 /\ d.Entries[k + 1].Issuer = issuer}
    IN  IF M = {} THEN [ind |-> -1, err |-> ErrEntryNotFound]
        ELSE [ind |-> CHOOSE x \in M : \A y \in M : x <= y, err |-> ErrNone]

FindEntry(d, name, issuer) == FindFrom(d.Entries, 0, name, issuer)

\* GetEntry looking the account name up without the issuer
GetEntryByName(d, name, issuer) ==
    LET f == FindEntry(d, name, "") IN
    IF f.err # ErrNone THEN [val |-> ZeroEntry, err |-> f.err]
    ELSE [val |-> d.Entries[f.ind + 1], err |-> ErrNone]

GetEntry(d, name, issuer) ==
    LET f == FindEntry(d, name, issuer) IN
    IF f.err # ErrNone THEN [val |-> ZeroEntry, err |-> f.err]
    ELSE [val |-> d.Entries[f.ind + 1], err |-> ErrNone]

\* AddEntry without the check for an existing entry
AddEntryNoCheck(d, key) ==
    [data |-> [nil |-> FALSE, Entries |-> Append(d.Entries, FromOTPKey(key))],
     err |-> ErrNone]

\* AddEntry overwriting the entry it finds
AddEntryReplace(d, key) ==
    LET ent == FromOTPKey(key)
        f == FindEntry(d, ent.AccountName, ent.Issuer)
    IN  IF f.err # ErrNone
        THEN [data |-> [nil |-> FALSE, Entries |-> Append(d.Entries, ent)],
              err |-> ErrNone]
        ELSE [data |-> [d EXCEPT !.Entries[f.ind + 1] = ent], err |-> ErrEntryExists]

\* AddEntry putting the new entry first
AddEntryPrepend(d, key) ==
    LET ent == FromOTPKey(key)
        f == FindEntry(d, ent.AccountName, ent.Issuer)
    IN  IF f.err # ErrNone
        THEN [data |-> [nil |-> FALSE, Entries |-> <<ent>> \o d.Entries],
              err |-> ErrNone]
        ELSE [data |-> [nil |-> FALSE, Entries |-> d.Entries], err |-> ErrEntryExists]

\* data after the call, and the error returned
AddEntry(d, key) ==
    LET ent == FromOTPKey(key)
        d1 == IF d.nil THEN [nil |-> FALSE, Entries |-> <<>>] ELSE d
        f == FindEntry(d1, ent.AccountName, ent.Issuer)
    IN  IF f.err # ErrNone
        THEN [data |-> [d1 EXCEPT !.Entries = Append(d1.Entries, ent)], err |-> ErrNone]
        ELSE [data |-> d1, err |-> ErrEntryExists]

\* RemoveEntry joining Entries[:index] and Entries[index:]
RemoveEntryKeepsAll(d, name, issuer) ==
    LET f == FindEntry(d, name, issuer) IN
    IF f.err # ErrNone THEN [data |-> d, err |-> f.err]
    ELSE [data |-> d, err |-> ErrNone]

\* RemoveEntry moving the last entry into the place of the removed one
RemoveEntrySwapLast(d, name, issuer) ==
    LET f == FindEntry(d, name, issuer)
        n == Len(d.Entries)
    IN  IF f.err # ErrNone THEN [data |-> d, err |-> f.err]
        ELSE [data |-> [d EXCEPT !.Entries =
                            SubSeq([d.Entries EXCEPT ![f.ind + 1] = d.Entries[n]],
                                   1, n - 1)],
              err |-> ErrNone]

RemoveEntry(d, name, issuer) ==
    LET f == FindEntry(d, name, issuer) IN
    IF f.err # ErrNone THEN [data |-> d, err |-> f.err]
    ELSE [data |-> [d EXCEPT !.Entries =
                        SubSeq(d.Entries, 1, f.ind) \o
                        SubSeq(d.Entries, f.ind + 2, Len(d.Entries))],
          err |-> ErrNone]

(***************************************************************************)
(* CBOR.  An encoding is a sequence of data items, one item standing for   *)
(* its bytes: a map or array head with its count, a text string, an        *)
(* unsigned integer, null.  A struct is a map from field names to values:  *)
(* TOTPData has the one field Entries, TOTPEntry the eight fields named by *)
(* its cbor tags.  A nil slice is encoded as null.                         *)
(***************************************************************************)
Tok(t, str, num) == [t |-> t, s |-> str, n |-> num]
TMap(count) == Tok("map", "", count)
TArray(count) == Tok("array", "", count)
TText(str) == Tok("text", str, 0)
TUint(num) == Tok("uint", "", num)
TNull == Tok("null", "", 0)
TGarbage == Tok("garbage", "", 0)

ErrUnexpectedEOF == "unexpected EOF"
ErrUnmarshalType == "cbor: cannot unmarshal"

EncodeEntry(e) ==
    << TMap(8),
       TText("issuer"), TText(e.Issuer),
       TText("account_name"), TText(e.AccountName),
       TText("secret"), TText(e.Secret),
       TText("type"), TText(e.Type),
       TText("period"), TUint(e.Period),
       TText("digits"), TUint(e.Digits),
       TText("algorithm"), TText(e.Algorithm),
       TText("url"), TText(e.URL) >>

RECURSIVE EncodeEntries(_)
EncodeEntries(entries) ==
    IF entries = <<>> THEN <<>>
    ELSE EncodeEntry(Head(entries)) \o EncodeEntries(Tail(entries))

\* encoder.Encode(data)
Encode(d) ==
    << TMap(1), TText("Entries") >> \o
    (IF d.nil THEN << TNull >>
     ELSE << TArray(Len(d.Entries)) >> \o EncodeEntries(d.Entries))

\* one field of a TOTPEntry set from the item v found under the name k;
\* a name the struct does not have is skipped
SetField(ent, k, v) ==
    LET str == k \in {"issuer", "account_name", "secret", "type", "algorithm", "url"}
        num == k \in {"period", "digits"}
    IN  IF v.t = "null" \/ ~(str \/ num) THEN [ent |-> ent, err |-> ErrNone]
        ELSE IF (str /\ v.t # "text") \/ (num /\ v.t # "uint")
        THEN [ent |-> ent, err |-> ErrUnmarshalType]
        ELSE [ent |-> CASE k = "issuer" -> [ent EXCEPT !.Issuer = v.s]
                        [] k = "account_name" -> [ent EXCEPT !.AccountName = v.s]
                        [] k = "secret" -> [ent EXCEPT !.Secret = v.s]
                        [] k = "type" -> [ent EXCEPT !.Type = v.s]
                        [] k = "algorithm" -> [ent EXCEPT !.Algorithm = v.s]
                        [] k = "url" -> [ent EXCEPT !.URL = v.s]
                        [] k = "period" -> [ent EXCEPT !.Period = v.n]
                        [] k = "digits" -> [ent EXCEPT !.Digits = v.n],
              err |-> ErrNone]

RECURSIVE DecodeFields(_, _, _, _)
\* the `left` name/value pairs of an entry's map from position pos on
DecodeFields(toks, pos, left, ent) ==
    IF left = 0 THEN [ent |-> ent, pos |-> pos, err |-> ErrNone]
    ELSE IF pos + 1 > Len(toks) THEN [ent |-> ent, pos |-> pos, err |-> ErrUnexpectedEOF]
    ELSE IF toks[pos].t # "text" \/ toks[pos + 1].t \notin {"text", "uint", "null"}
    THEN [ent |-> ent, pos |-> pos, err |-> ErrUnmarshalType]
    ELSE LET f == SetField(ent, toks[pos].s, toks[pos + 1]) IN
         IF f.err # ErrNone THEN [ent |-> ent, pos |-> pos, err |-> f.err]
         ELSE DecodeFields(toks, pos + 2, left - 1, f.ent)

RECURSIVE DecodeEntries(_, _, _, _)
\* the `left` elements of the Entries array from position pos on
DecodeEntries(toks, pos, left, acc) ==
    IF left = 0 THEN [entries |-> acc, err |-> ErrNone]
    ELSE IF pos > Len(toks) THEN [entries |-> acc, err |-> ErrUnexpectedEOF]
    ELSE IF toks[pos].t # "map" THEN [entries |-> acc, err |-> ErrUnmarshalType]
    ELSE LET e == DecodeFields(toks, pos + 1, toks[pos].n, ZeroEntry) IN
         IF e.err # ErrNone THEN [entries |-> acc, err |-> e.err]
         ELSE DecodeEntries(toks, e.pos, left - 1, Append(acc, e.ent))

\* decoder.Decode(&totpData) into a zero TOTPData: the first data item of the
\* stream, which is what Encode writes
Decode(toks) ==
    IF Len(toks) < 3 THEN [data |-> ZeroData, err |-> ErrUnexpectedEOF]
    ELSE IF toks[1] # TMap(1) \/ toks[2] # TText("Entries")
    THEN [data |-> ZeroData, err |-> ErrUnmarshalType]
    ELSE IF toks[3].t = "null" THEN [data |-> ZeroData, err |-> ErrNone]
    ELSE IF toks[3].t # "array" THEN [data |-> ZeroData, err |-> ErrUnmarshalType]
    ELSE LET r == DecodeEntries(toks, 4, toks[3].n, <<>>) IN
         IF r.err # ErrNone THEN [data |-> ZeroData, err |-> r.err]
         ELSE [data |-> [nil |-> FALSE, Entries |-> r.entries], err |-> ErrNone]

(***************************************************************************)
(* Key derivation and AES-GCM.  PBKDF2 is taken as injective: the key is   *)
(* the (password, salt, length) it was derived from.  A sealed message is  *)
(* nonce || ciphertext || tag, NonceSize nonce bytes, one ciphertext cell   *)
(* per plaintext item (counter mode: cell i depends on key, nonce, i and   *)
(* item i) and TagSize tag bytes that depend on key, nonce and the whole   *)
(* ciphertext.  Open returns the plaintext only when the tag is the one    *)
(* Seal computes for that key, nonce and ciphertext.                       *)
(***************************************************************************)
KeyLen == 32
NonceSize == 12
TagSize == 16
Nonces == 1..MaxNonce

ErrKeySize == "crypto/aes: invalid key size"
ErrTooShort == "ciphertext too short"
ErrOpen == "cipher: message authentication failed"

DeriveKey(password, salt, keyLen) == [pwd |-> password, salt |-> salt, len |-> keyLen]

NoKey == [pwd |-> "", salt |-> "", len |-> 0]

Cell(kind, key, nonce, pos, tok, auth) ==
    [kind |-> kind, key |-> key, nonce |-> nonce, pos |-> pos, tok |-> tok, auth |-> auth]

NonceBytes(n) == [i \in 1..NonceSize |-> Cell("nonce", NoKey, n, i, TNull, <<>>)]

\* the nonce value a NonceSize-byte prefix spells; 0 when it is none that
\* Encrypt draws
NonceOf(bytes) ==
    IF \E n \in Nonces : bytes = NonceBytes(n)
    THEN CHOOSE n \in Nonces : bytes = NonceBytes(n)
    ELSE 0

\* counter mode under (key, nonce)
CTR(key, n, src) == [i \in 1..Len(src) |-> Cell("ct", key, n, i, src[i], <<>>)]

\* the ciphertext cells at positions i, i + TagSize, i + 2 * TagSize, ...
Slice(ct, i) ==
    [j \in 1..(IF i > Len(ct) THEN 0 ELSE (Len(ct) - i) \div TagSize + 1) |->
        ct[i + (j - 1) * TagSize]]

\* the tag of ciphertext ct under (key, nonce): the TagSize bytes together
\* determine key, nonce and every ciphertext cell (byte i carries Slice i)
Tag(key, n, ct) ==
    [i \in 1..TagSize |-> Cell("tag", key, n, i, TNull, Slice(ct, i))]

\* counter mode applied to ciphertext: the item back when the cell was made
\* under this key and nonce at this position
UnCTR(key, n, ct) ==
    [i \in 1..Len(ct) |->
        IF ct[i].kind = "ct" /\ ct[i].key = key /\ ct[i].nonce = n /\ ct[i].pos = i
        THEN ct[i].tok ELSE TGarbage]

\* aesGCM.Seal(dst, nonce, src, nil)
Seal(dst, key, n, src) ==
    LET ct == CTR(key, n, src) IN dst \o ct \o Tag(key, n, ct)

\* Open decrypting without comparing the tag
OpenUnchecked(key, nonce, ciphertext) ==
    IF Len(ciphertext) < TagSize THEN [pt |-> <<>>, err |-> ErrOpen]
    ELSE LET ct == SubSeq(ciphertext, 1, Len(ciphertext) - TagSize)
         IN  [pt |-> UnCTR(key, NonceOf(nonce), ct), err |-> ErrNone]

\* aesGCM.Open(nil, nonce, ciphertext, nil)
Open(key, nonce, ciphertext) ==
    IF Len(ciphertext) < TagSize THEN [pt |-> <<>>, err |-> ErrOpen]
    ELSE LET ct == SubSeq(ciphertext, 1, Len(ciphertext) - TagSize)
             tag == SubSeq(ciphertext, Len(ciphertext) - TagSize + 1, Len(ciphertext))
             n == NonceOf(nonce)
         IN  IF n = 0 \/ tag # Tag(key, n, ct) THEN [pt |-> <<>>, err |-> ErrOpen]
             ELSE [pt |-> UnCTR(key, n, ct), err |-> ErrNone]

\* Encrypt storing the ciphertext without the nonce in front
EncryptNoNonce(src, key, n) ==
    [ct |-> Seal(<<>>, key, n, src), err |-> ErrNone]

\* n is the nonce read from rand.Reader
Encrypt(src, key, n) ==
    IF key.len \notin {16, 24, 32} THEN [ct |-> <<>>, err |-> ErrKeySize]
    ELSE [ct |-> Seal(NonceBytes(n), key, n, src), err |-> ErrNone]

Decrypt(src, key) ==
    IF key.len \notin {16, 24, 32} THEN [pt |-> <<>>, err |-> ErrKeySize]
    ELSE IF Len(src) < NonceSize THEN [pt |-> <<>>, err |-> ErrTooShort]
    ELSE Open(key, SubSeq(src, 1, NonceSize), SubSeq(src, NonceSize + 1, Len(src)))

(***************************************************************************)
(* The file at the database path, and ReadCBORSec / WriteCBORSec.          *)
(***************************************************************************)
ErrNotExist == "no such file or directory"

NoFile == [exists |-> FALSE, bytes |-> <<>>]

\* ReadCBORSec treating a file that does not decrypt as an empty database
ReadCBORSecLenient(f, password, salt) ==
    IF ~f.exists THEN [data |-> ZeroData, err |-> ErrNotExist]
    ELSE LET dec == Decrypt(f.bytes, DeriveKey(password, salt, KeyLen)) IN
         IF dec.err # ErrNone THEN [data |-> ZeroData, err |-> ErrNone]
         ELSE Decode(dec.pt)

\* the *TOTPData returned (ZeroData standing for nil) and the error
ReadCBORSec(f, password, salt) ==
    IF ~f.exists THEN [data |-> ZeroData, err |-> ErrNotExist]
    ELSE LET dec == Decrypt(f.bytes, DeriveKey(password, salt, KeyLen)) IN
         IF dec.err # ErrNone THEN [data |-> ZeroData, err |-> dec.err]
         ELSE Decode(dec.pt)

\* the bytes WriteCBORSec hands to os.WriteFile, n the nonce drawn
SealedData(d, password, salt, n) ==
    Encrypt(Encode(d), DeriveKey(password, salt, KeyLen), n)

\* os.WriteFile: the file after open(O_WRONLY|O_CREATE|O_TRUNC)
Truncated == [exists |-> TRUE, bytes |-> <<>>]

\* a byte of the file that was never written
Hole(i) == Cell("hole", NoKey, 0, i, TNull, <<>>)

\* the file after a write of buf at offset off
WriteAt(f, off, buf) ==
    [exists |-> TRUE,
     bytes |-> [i \in 1..(IF Len(f.bytes) > off + Len(buf) THEN Len(f.bytes) ELSE off + Len(buf)) |->
                  IF i > off /\ i <= off + Len(buf) THEN buf[i - off]
                  ELSE IF i <= Len(f.bytes) THEN f.bytes[i]
                  ELSE Hole(i)]]

(***************************************************************************)
(* Spec: the method calls.  ret records the call: its arguments, the value *)
(* it was called on (pre) and what it returned.                            *)
(***************************************************************************)
NoRet ==
    [op |-> "none", key |-> ZeroEntry, name |-> "", issuer |-> "",
     ind |-> -1, err |-> ErrNone, val |-> ZeroEntry, pre |-> ZeroData]

CallAddEntry(key) ==
    LET r == AddEntry(data, key) IN
    /\ Len(r.data.Entries) <= MaxEntries
    /\ data' = r.data
    /\ ret' = [NoRet EXCEPT !.op = "add", !.key = FromOTPKey(key),
                            !.name = key.accountName, !.issuer = key.issuer,
                            !.err = r.err, !.pre = data]

CallFindEntry(name, issuer) ==
    LET r == FindEntry(data, name, issuer) IN
    /\ data' = data
    /\ ret' = [NoRet EXCEPT !.op = "find", !.name = name, !.issuer = issuer,
                            !.ind = r.ind, !.err = r.err, !.pre = data]

CallGetEntry(name, issuer) ==
    LET r == GetEntry(data, name, issuer) IN
    /\ data' = data
    /\ ret' = [NoRet EXCEPT !.op = "get", !.name = name, !.issuer = issuer,
                            !.val = r.val, !.err = r.err, !.pre = data]

\* val and ind record which entry the call took out
CallRemoveEntry(name, issuer) ==
    LET r == RemoveEntry(data, name, issuer)
        f == FindEntry(data, name, issuer)
    IN
    /\ data' = r.data
    /\ ret' = [NoRet EXCEPT !.op = "remove", !.name = name, !.issuer = issuer,
                            !.ind = f.ind, !.err = r.err, !.pre = data,
                            !.val = IF f.err = ErrNone THEN data.Entries[f.ind + 1]
                                    ELSE ZeroEntry]

Passwords == {"hunter2", "letmein"}
Salts == {"/* Copyright (c) 2024, Books Worm Limited. */", "pepper"}

NoSaved == [has |-> FALSE, data |-> ZeroData, pwd |-> "", salt |-> ""]
NoWrite ==
    [pc |-> "idle", data |-> ZeroData, pwd |-> "", salt |-> "", buf |-> <<>>,
     before |-> NoFile]
NoRead == [op |-> "none", pwd |-> "", salt |-> "", err |-> ErrNone, data |-> ZeroData]

Procs == {1, 2}
NoInvocation ==
    [pc |-> "idle", cmd |-> "", key |-> OTPKey("", "", ""), name |-> "", issuer |-> "",
     pwd |-> "", data |-> ZeroData, buf |-> <<>>, err |-> ErrNone,
     reads |-> 0, mutated |-> FALSE, writes |-> 0]
NoInvocations == [p \in Procs |-> NoInvocation]

\* env is the value of TOTP_DB_PATH and home that of HOME, "" when not set
NoCommand ==
    [pc |-> "shell", env |-> "", home |-> "", flagChanged |-> FALSE, flag |-> "",
     quiet |-> FALSE, dbPath |-> "", exit |-> "", out |-> ""]

Init ==
    /\ data = ZeroData
    /\ ret = NoRet
    /\ file = NoFile
    /\ wr = NoWrite
    /\ saved = NoSaved
    /\ rd = NoRead
    /\ inv = NoInvocations
    /\ order = <<>>
    /\ cli = NoCommand

Next ==
    \/ \E key \in OTPKeys : CallAddEntry(key) /\ UNCHANGED <<file, wr, saved, rd, inv, order, cli>>
    \/ \E n \in AccountNames, i \in Issuers :
          CallFindEntry(n, i) /\ UNCHANGED <<file, wr, saved, rd, inv, order, cli>>
    \/ \E n \in AccountNames, i \in Issuers :
          CallGetEntry(n, i) /\ UNCHANGED <<file, wr, saved, rd, inv, order, cli>>
    \/ \E n \in AccountNames, i \in Issuers :
          CallRemoveEntry(n, i) /\ UNCHANGED <<file, wr, saved, rd, inv, order, cli>>

Spec == Init /\ [][Next]_vars

(***************************************************************************)
(* Properties of the collection (checked under Spec).                      *)
(***************************************************************************)
\* record e has account name and issuer (name, issuer); an empty issuer asks
\* for the account name alone
Matches(e, name, issuer) ==
    e.AccountName = name /\ (issuer # "" => e.Issuer = issuer)

\* the Go indexes of the entries of d that (name, issuer) asks for
MatchSet(d, name, issuer) ==
    {k \in 0..(Len(d.Entries) - 1) : Matches(d.Entries[k + 1], name, issuer)}

Min(S) == CHOOSE x \in S : \A y \in S : x <= y

SameName(d, name) == {k \in 1..Len(d.Entries) : d.Entries[k].AccountName = name}

\* C2: no two records of the collection have the same account name and the
\* same issuer when that issuer is not empty.
C2_UniqueNonEmptyIssuer ==
    \A i, j \in 1..Len(data.Entries) :
        (/\ i # j
         /\ data.Entries[i].AccountName = data.Entries[j].AccountName
         /\ data.Entries[i].Issuer = data.Entries[j].Issuer)
        => data.Entries[i].Issuer = ""

\* an add of a pair with a non-empty issuer was turned down while the
\* collection holds two records of that account
C2_Witness ==
    /\ ret.op = "add" /\ ret.err = ErrEntryExists /\ ret.issuer # ""
    /\ Cardinality(SameName(data, ret.name)) >= 2

\* C3, as claimed: after a remove(a, i) that succeeded, find(a, i) on the same
\* collection returns NotFound, for every (a, i), the empty issuer included.
C3_RemoveThenFind_Claimed ==
    (ret.op = "remove" /\ ret.err = ErrNone)
    => FindEntry(data, ret.name, ret.issuer) = [ind |-> -1, err |-> ErrEntryNotFound]

\* C3, amended: after a remove(a, i) that succeeded, find(a, i) returns
\* NotFound when i is not empty, or when i is empty and the collection held
\* one record of account a.
C3_RemoveThenFind ==
    (/\ ret.op = "remove" /\ ret.err = ErrNone
     /\ (ret.issuer # "" \/ Cardinality(SameName(ret.pre, ret.name)) = 1))
    => FindEntry(data, ret.name, ret.issuer) = [ind |-> -1, err |-> ErrEntryNotFound]

\* a record with a non-empty issuer was removed and another record of the
\* same account is still there
C3_Witness ==
    /\ ret.op = "remove" /\ ret.err = ErrNone /\ ret.issuer # ""
    /\ SameName(data, ret.name) # {}

\* C4: an add of a record whose account name and issuer are those of a record
\* of the collection returns ErrEntryExists and leaves the collection as it
\* was: same records, same order, same length.
C4_DuplicateRejected ==
    (/\ ret.op = "add"
     /\ \E k \in 1..Len(ret.pre.Entries) :
            /\ ret.pre.Entries[k].AccountName = ret.key.AccountName
            /\ ret.pre.Entries[k].Issuer = ret.key.Issuer)
    => /\ ret.err = ErrEntryExists
       /\ data = ret.pre
       /\ Len(data.Entries) = Len(ret.pre.Entries)

\* the record turned down has the pair of a stored record and another secret
C4_Witness ==
    /\ ret.op = "add" /\ ret.err = ErrEntryExists
    /\ Len(data.Entries) >= 2
    /\ \E k \in 1..Len(data.Entries) :
            /\ data.Entries[k].AccountName = ret.key.AccountName
            /\ data.Entries[k].Issuer = ret.key.Issuer
            /\ data.Entries[k].Secret # ret.key.Secret

GetsRecord(d, r) == GetEntry(d, r.AccountName, r.Issuer) = [val |-> r, err |-> ErrNone]

\* C5: after add(r) succeeds, get(r.account_name, r.issuer) returns r; a get
\* that returns r keeps returning r over every step that is not the removal
\* of r; and get returns NotFound exactly when no record matches (when find
\* returns NotFound).
C5_AddThenGet ==
    /\ []((ret.op = "add" /\ ret.err = ErrNone) => GetsRecord(data, ret.key))
    /\ [][\A k \in 1..Len(data.Entries) :
            (/\ GetsRecord(data, data.Entries[k])
             /\ ~(ret'.op = "remove" /\ ret'.err = ErrNone
                  /\ ret'.val = data.Entries[k]))
            => GetsRecord(data', data.Entries[k])]_vars
    /\ [](ret.op = "get" =>
            /\ (ret.err = ErrEntryNotFound <=>
                    FindEntry(ret.pre, ret.name, ret.issuer).err = ErrEntryNotFound)
            /\ (ret.err = ErrEntryNotFound <=>
                    MatchSet(ret.pre, ret.name, ret.issuer) = {})
            /\ ret.err \in {ErrNone, ErrEntryNotFound})

\* get returned a record that is not the first of its account, after another
\* record was removed
C5_Witness ==
    /\ ret.op = "get" /\ ret.err = ErrNone /\ ret.issuer # ""
    /\ \E k \in 2..Len(data.Entries) :
            /\ data.Entries[k] = ret.val
            /\ data.Entries[1].AccountName = ret.name
    /\ Len(data.Entries) = MaxEntries

\* C6: find returns the smallest index whose record has the account name and,
\* for a non-empty issuer, the issuer; with an empty issuer the first record
\* of the account whatever its issuer; and index -1 with ErrEntryNotFound
\* exactly when no record matches.
C6_FindFirstMatch ==
    ret.op = "find" =>
        LET M == MatchSet(ret.pre, ret.name, ret.issuer) IN
        IF M = {} THEN ret.ind = -1 /\ ret.err = ErrEntryNotFound
        ELSE ret.ind = Min(M) /\ ret.err = ErrNone

\* find by account name alone returned a record that is not the first of the
\* collection, has an issuer, and is followed by another record of the account
C6_Witness ==
    /\ ret.op = "find" /\ ret.issuer = "" /\ ret.err = ErrNone
    /\ ret.ind >= 1
    /\ data.Entries[ret.ind + 1].Issuer # ""
    /\ \E k \in MatchSet(data, ret.name, "") : k > ret.ind

\* C7: remove takes out exactly the first matching record and leaves every
\* other record in place, in the same order; with no matching record it
\* returns ErrEntryNotFound and the collection is as it was.
C7_RemoveFirstMatch ==
    ret.op = "remove" =>
        LET M == MatchSet(ret.pre, ret.name, ret.issuer)
            old == ret.pre.Entries
        IN  IF M = {}
            THEN ret.err = ErrEntryNotFound /\ data = ret.pre
            ELSE /\ ret.err = ErrNone
                 /\ Len(data.Entries) = Len(old) - 1
                 /\ \A j \in 1..Len(data.Entries) :
                        data.Entries[j] = IF j <= Min(M) THEN old[j] ELSE old[j + 1]

\* a record in the middle was removed, with records before and after it
C7_Witness ==
    /\ ret.op = "remove" /\ ret.err = ErrNone
    /\ ret.ind >= 1 /\ ret.ind < Len(data.Entries)

\* C8: add succeeds exactly when no record matches (find returns NotFound);
\* on success the collection is the old one with the record appended as its
\* last element, also when Entries was nil before the call.
C8_AddAppends ==
    ret.op = "add" =>
        LET M == MatchSet(ret.pre, ret.key.AccountName, ret.key.Issuer) IN
        /\ (ret.err = ErrNone <=> M = {})
        /\ (ret.err = ErrNone <=>
                FindEntry(ret.pre, ret.key.AccountName, ret.key.Issuer).err
                    = ErrEntryNotFound)
        /\ ret.err = ErrNone => data.Entries = Append(ret.pre.Entries, ret.key)
        /\ ret.err # ErrNone => ret.err = ErrEntryExists /\ data.Entries = ret.pre.Entries
        /\ ~data.nil

\* the first insert, into a TOTPData whose Entries is nil
C8_Witness ==
    /\ ret.op = "add" /\ ret.err = ErrNone
    /\ ret.pre.nil /\ data.Entries = <<ret.key>>

\* C15: in every collection built from TOTPData{} by AddEntry and RemoveEntry
\* calls no two records have the same account name and issuer, the empty
\* issuer included; a record with the empty issuer comes before every other
\* record of its account name; an account name has at most one record with
\* the empty issuer.
C15_DistinctPairs ==
    LET E == data.Entries IN
    /\ \A i, j \in 1..Len(E) :
          (E[i].AccountName = E[j].AccountName /\ E[i].Issuer = E[j].Issuer) => i = j
    /\ \A i, j \in 1..Len(E) :
          (E[i].Issuer = "" /\ E[j].AccountName = E[i].AccountName) => i <= j
    /\ \A name \in AccountNames :
          Cardinality({i \in 1..Len(E) : E[i].AccountName = name /\ E[i].Issuer = ""}) <= 1

\* a record with the empty issuer followed by a record of the same account,
\* another record having just been removed
C15_Witness ==
    /\ ret.op = "remove" /\ ret.err = ErrNone
    /\ \E i, j \in 1..Len(data.Entries) :
          /\ i < j
          /\ data.Entries[i].Issuer = ""
          /\ data.Entries[j].AccountName = data.Entries[i].AccountName

(***************************************************************************)
(* SpecStore: WriteCBORSec and ReadCBORSec calls on one path, each run to  *)
(* its end, with any collection, password and salt.                        *)
(***************************************************************************)
StoreRecords ==
    {FromOTPKey(OTPKey("GitHub", "alice", "JBSWY3DPEHPK3PXP")),
     FromOTPKey(OTPKey("", "bob", "KRUGS4ZANFZSAYJA"))}

RECURSIVE SeqsUpTo(_, _)
SeqsUpTo(S, n) ==
    IF n = 0 THEN {<<>>}
    ELSE LET shorter == SeqsUpTo(S, n - 1) IN
         shorter \cup {Append(q, x) : q \in shorter, x \in S}

\* the collections handed to WriteCBORSec: Entries nil, empty, or any
\* sequence of records
StoreCollections ==
    {ZeroData} \cup
    {[nil |-> FALSE, Entries |-> q] : q \in SeqsUpTo(StoreRecords, MaxStoreEntries)}

CallWriteCBORSec(d, password, salt, n) ==
    LET sealed == SealedData(d, password, salt, n) IN
    /\ sealed.err = ErrNone
    /\ file' = WriteAt(Truncated, 0, sealed.ct)
    /\ saved' = [has |-> TRUE, data |-> d, pwd |-> password, salt |-> salt]
    /\ rd' = NoRead
    /\ UNCHANGED <<data, ret, wr, inv, order, cli>>

CallReadCBORSec(password, salt) ==
    LET r == ReadCBORSec(file, password, salt) IN
    /\ rd' = [op |-> "read", pwd |-> password, salt |-> salt,
              err |-> r.err, data |-> r.data]
    /\ UNCHANGED <<data, ret, file, wr, saved, inv, order, cli>>

NextStore ==
    \/ \E d \in StoreCollections, p \in Passwords, s \in Salts, n \in Nonces :
          CallWriteCBORSec(d, p, s, n)
    \/ \E p \in Passwords, s \in Salts : CallReadCBORSec(p, s)

SpecStore == Init /\ [][NextStore]_vars

C11_WrongPassword ==
    (/\ rd.op = "read" /\ saved.has
     /\ rd.salt = saved.salt /\ rd.pwd # saved.pwd)
    => /\ rd.err = ErrOpen
       /\ rd.data = ZeroData

\* a collection with a record was written and read with the other password
C11_Witness ==
    /\ rd.op = "read" /\ saved.has
    /\ rd.salt = saved.salt /\ rd.pwd # saved.pwd
    /\ Len(saved.data.Entries) = MaxStoreEntries
    /\ rd.err = ErrOpen

(***************************************************************************)
(* SpecCrash: one WriteCBORSec call taken step by step, on a path that     *)
(* holds nothing or the file of an earlier save.  The call seals the data, *)
(* then os.WriteFile opens the path with O_TRUNC, writes the sealed bytes  *)
(* and closes.  The process may stop between any two steps and in the      *)
(* middle of the write, which leaves a prefix of the bytes, or the file at *)
(* its new length with only a prefix of the bytes on disk.  The path is    *)
(* read before the call and after it ended or was interrupted.  wr.before  *)
(* is the file as it was when the call began.                              *)
(***************************************************************************)
\* the salt GetSalt returns with no flag and no environment variable, and
\* the password of the user who saves
DefaultSalt == "/* Copyright (c) 2024, Books Worm Limited. */"
UserPassword == "hunter2"

\* the earlier save drew some nonce; the nonce of the call in progress is
\* any, the same one included
InitCrash ==
    /\ data = ZeroData
    /\ ret = NoRet
    /\ \/ file = NoFile /\ saved = NoSaved
       \/ \E d \in StoreCollections :
             /\ file = WriteAt(Truncated, 0, SealedData(d, UserPassword, DefaultSalt, 1).ct)
             /\ saved = [has |-> TRUE, data |-> d, pwd |-> UserPassword,
                         salt |-> DefaultSalt]
    /\ wr = NoWrite
    /\ rd = NoRead
    /\ inv = NoInvocations
    /\ order = <<>>
    /\ cli = NoCommand

WriteSeal(d, n) ==
    LET sealed == SealedData(d, UserPassword, DefaultSalt, n) IN
    /\ wr.pc = "idle"
    /\ sealed.err = ErrNone
    /\ wr' = [pc |-> "sealed", data |-> d, pwd |-> UserPassword, salt |-> DefaultSalt,
              buf |-> sealed.ct, before |-> file]
    /\ saved' = [saved EXCEPT !.has = FALSE]
    /\ rd' = NoRead
    /\ UNCHANGED <<data, ret, file, inv, order, cli>>

WriteOpen ==
    /\ wr.pc = "sealed"
    /\ file' = Truncated
    /\ wr' = [wr EXCEPT !.pc = "open"]
    /\ UNCHANGED <<data, ret, saved, rd, inv, order, cli>>

WriteData ==
    /\ wr.pc = "open"
    /\ file' = WriteAt(file, 0, wr.buf)
    /\ wr' = [wr EXCEPT !.pc = "written"]
    /\ UNCHANGED <<data, ret, saved, rd, inv, order, cli>>

WriteClose ==
    /\ wr.pc = "written"
    /\ wr' = [wr EXCEPT !.pc = "returned"]
    /\ saved' = [has |-> TRUE, data |-> wr.data, pwd |-> wr.pwd, salt |-> wr.salt]
    /\ UNCHANGED <<data, ret, file, rd, inv, order, cli>>

\* the process stops between two steps
CrashBetween ==
    /\ wr.pc \in {"sealed", "open", "written"}
    /\ wr' = [wr EXCEPT !.pc = "crashed"]
    /\ UNCHANGED <<data, ret, file, saved, rd, inv, order, cli>>

\* the process stops in the write, k bytes of the buffer in the file
CrashInWrite(k) ==
    /\ wr.pc = "open"
    /\ file' = WriteAt(file, 0, SubSeq(wr.buf, 1, k))
    /\ wr' = [wr EXCEPT !.pc = "crashed"]
    /\ UNCHANGED <<data, ret, saved, rd, inv, order, cli>>

\* the process stops in the write with the file already at its new length and
\* only the first k bytes of the buffer on disk
CrashUnflushed(k) ==
    /\ wr.pc = "open"
    /\ file' = WriteAt(WriteAt(file, Len(wr.buf) - 1, <<Hole(Len(wr.buf))>>),
                       0, SubSeq(wr.buf, 1, k))
    /\ wr' = [wr EXCEPT !.pc = "crashed"]
    /\ UNCHANGED <<data, ret, saved, rd, inv, order, cli>>

LaterRead(password) ==
    LET r == ReadCBORSec(file, password, DefaultSalt) IN
    /\ wr.pc \in {"idle", "returned", "crashed"}
    /\ rd' = [op |-> "read", pwd |-> password, salt |-> DefaultSalt,
              err |-> r.err, data |-> r.data]
    /\ UNCHANGED <<data, ret, file, wr, saved, inv, order, cli>>

NextCrash ==
    \/ \E d \in StoreCollections, n \in Nonces : WriteSeal(d, n)
    \/ WriteOpen
    \/ WriteData
    \/ WriteClose
    \/ CrashBetween
    \/ \E k \in 1..(Len(wr.buf) - 1) : CrashInWrite(k)
    \/ \E k \in 0..(Len(wr.buf) - 1) : CrashUnflushed(k)
    \/ \E p \in Passwords : LaterRead(p)

SpecCrash == InitCrash /\ [][NextCrash]_vars

\* C9: when WriteCBORSec was interrupted, a later ReadCBORSec of the path that
\* returns no error returns the collection being saved or the collection the
\* path held before the call (what the same read returned on the file as it
\* was); it returns no error only on the complete new file or the old file.
C9_CrashSafe ==
    (rd.op = "read" /\ wr.pc = "crashed" /\ rd.err = ErrNone)
    => /\ \/ rd.data = wr.data
          \/ ReadCBORSec(wr.before, rd.pwd, rd.salt) = [data |-> rd.data, err |-> ErrNone]
       /\ \/ file = wr.before
          \/ file.bytes = wr.buf

\* the write stopped with part of the new bytes in the file, over a file that
\* held another collection, and the path was read with the password of both
C9_Witness ==
    /\ rd.op = "read" /\ wr.pc = "crashed"
    /\ file.exists /\ file.bytes # wr.buf /\ Len(file.bytes) > NonceSize + TagSize
    /\ wr.before.exists
    /\ ReadCBORSec(wr.before, rd.pwd, rd.salt).err = ErrNone
    /\ ReadCBORSec(wr.before, rd.pwd, rd.salt).data # wr.data
    /\ rd.pwd = wr.pwd
    /\ rd.err = ErrOpen

\* C12: every read of an existing file that fails in Decrypt, whether the file
\* is shorter than the nonce, was sealed under another password or is
\* incomplete, returns one and the same error, that of a failed
\* authentication.
C12_SingleFailure ==
    (/\ rd.op = "read" /\ file.exists
     /\ Decrypt(file.bytes, DeriveKey(rd.pwd, rd.salt, KeyLen)).err # ErrNone)
    => rd.err = ErrOpen

(***************************************************************************)
(* SpecConc: two invocations of the command line tool on the same database *)
(* path, with no locking.  An invocation of add-url, add-qrc or remove     *)
(* reads the password, loads the database (ReadCBORSec), changes the       *)
(* collection in memory (AddEntry / RemoveEntry) and saves it              *)
(* (WriteCBORSec: seal, open with O_TRUNC, write at offset 0, close).  An  *)
(* error at any step ends the invocation.  The database was created with   *)
(* UserPassword and holds one record.  An invocation counts its            *)
(* ReadCBORSec calls (reads) and WriteCBORSec calls (writes) and notes     *)
(* that its AddEntry / RemoveEntry returned nil (mutated).                 *)
(***************************************************************************)
InitialData ==
    [nil |-> FALSE,
     Entries |-> <<FromOTPKey(OTPKey("GitHub", "alice", "JBSWY3DPEHPK3PXP"))>>]

AddCommands ==
    {[cmd |-> "add-url", key |-> OTPKey("", "bob", "KRUGS4ZANFZSAYJA")],
     [cmd |-> "add-url", key |-> OTPKey("GitHub", "alice", "KRUGS4ZANFZSAYJA")],
     [cmd |-> "add-qrc", key |-> OTPKey("Okta", "bob", "JBSWY3DPEHPK3PXP")]}

RemoveCommands ==
    {[cmd |-> "remove", name |-> "alice", issuer |-> "GitHub"],
     [cmd |-> "remove", name |-> "bob", issuer |-> ""]}

InitConc ==
    /\ data = ZeroData
    /\ ret = NoRet
    /\ file = WriteAt(Truncated, 0, SealedData(InitialData, UserPassword, DefaultSalt, 1).ct)
    /\ wr = NoWrite
    /\ saved = NoSaved
    /\ rd = NoRead
    /\ inv = NoInvocations
    /\ order = <<>>
    /\ cli = NoCommand

\* cmdAddUrl / cmdAddQRC up to getPwdSalt: the key is parsed, the password read
RunAdd(p, c, password) ==
    /\ inv[p].pc = "idle"
    /\ inv' = [inv EXCEPT ![p] = [@ EXCEPT !.pc = "start", !.cmd = c.cmd, !.key = c.key,
                                            !.pwd = password]]
    /\ UNCHANGED <<data, ret, file, wr, saved, rd, order, cli>>

\* cmdRremove up to getPwdSalt
RunRemove(p, c, password) ==
    /\ inv[p].pc = "idle"
    /\ inv' = [inv EXCEPT ![p] = [@ EXCEPT !.pc = "start", !.cmd = c.cmd, !.name = c.name,
                                            !.issuer = c.issuer, !.pwd = password]]
    /\ UNCHANGED <<data, ret, file, wr, saved, rd, order, cli>>

\* data, err := totpdb.ReadCBORSec(dbFilePath, pwd, salt)
Load(p) ==
    LET r == ReadCBORSec(file, inv[p].pwd, DefaultSalt) IN
    /\ inv[p].pc = "start"
    /\ inv' = [inv EXCEPT ![p] =
                 IF r.err # ErrNone
                 THEN [@ EXCEPT !.pc = "done", !.err = r.err, !.reads = @ + 1]
                 ELSE [@ EXCEPT !.pc = "loaded", !.data = r.data, !.reads = @ + 1]]
    /\ UNCHANGED <<data, ret, file, wr, saved, rd, order, cli>>

\* a command that goes on to save after AddEntry / RemoveEntry returned an error
MutateThenSave(p) ==
    LET r == IF inv[p].cmd = "remove"
             THEN RemoveEntry(inv[p].data, inv[p].name, inv[p].issuer)
             ELSE AddEntry(inv[p].data, inv[p].key)
    IN
    /\ inv[p].pc = "loaded"
    /\ inv' = [inv EXCEPT ![p] =
                 [@ EXCEPT !.pc = "mutated", !.err = r.err, !.data = r.data,
                           !.mutated = (r.err = ErrNone)]]
    /\ UNCHANGED <<data, ret, file, wr, saved, rd, order, cli>>

\* data.AddEntry(key) or data.RemoveEntry(account, issuer)
Mutate(p) ==
    LET r == IF inv[p].cmd = "remove"
             THEN RemoveEntry(inv[p].data, inv[p].name, inv[p].issuer)
             ELSE AddEntry(inv[p].data, inv[p].key)
    IN
    /\ inv[p].pc = "loaded"
    /\ inv' = [inv EXCEPT ![p] =
                 IF r.err # ErrNone THEN [@ EXCEPT !.pc = "done", !.err = r.err, !.data = r.data]
                 ELSE [@ EXCEPT !.pc = "mutated", !.data = r.data, !.mutated = TRUE]]
    /\ UNCHANGED <<data, ret, file, wr, saved, rd, order, cli>>

\* WriteCBORSec up to the open of os.WriteFile, which truncates the file
SaveOpen(p, n) ==
    LET sealed == SealedData(inv[p].data, inv[p].pwd, DefaultSalt, n) IN
    /\ inv[p].pc = "mutated"
    /\ sealed.err = ErrNone
    /\ file' = Truncated
    /\ inv' = [inv EXCEPT ![p] = [@ EXCEPT !.pc = "open", !.buf = sealed.ct,
                                            !.writes = @ + 1]]
    /\ UNCHANGED <<data, ret, wr, saved, rd, order, cli>>

\* f.Write(data): the whole buffer at the descriptor's offset, 0
SaveWrite(p) ==
    /\ inv[p].pc = "open"
    /\ file' = WriteAt(file, 0, inv[p].buf)
    /\ inv' = [inv EXCEPT ![p] = [@ EXCEPT !.pc = "written"]]
    /\ order' = Append(order, p)
    /\ UNCHANGED <<data, ret, wr, saved, rd, cli>>

\* f.Close(), WriteCBORSec returns nil and the command ends
SaveClose(p) ==
    /\ inv[p].pc = "written"
    /\ inv' = [inv EXCEPT ![p] = [@ EXCEPT !.pc = "done"]]
    /\ UNCHANGED <<data, ret, file, wr, saved, rd, order, cli>>

NextConc ==
    \/ \E p \in Procs, c \in AddCommands, w \in Passwords : RunAdd(p, c, w)
    \/ \E p \in Procs, c \in RemoveCommands, w \in Passwords : RunRemove(p, c, w)
    \/ \E p \in Procs : Load(p)
    \/ \E p \in Procs : Mutate(p)
    \/ \E p \in Procs, n \in Nonces : SaveOpen(p, n)
    \/ \E p \in Procs : SaveWrite(p)
    \/ \E p \in Procs : SaveClose(p)

SpecConc == InitConc /\ [][NextConc]_vars

AllDone == \A p \in Procs : inv[p].pc = "done"

\* C10: when both invocations have ended and at least one saved, the file
\* holds exactly the bytes of the invocation that wrote the file last and
\* loads as the collection that invocation saved; it is never a mixture of the
\* two saves.
C10_LastWriterWins ==
    (AllDone /\ order # <<>>)
    => LET last == order[Len(order)] IN
       /\ file.bytes = inv[last].buf
       /\ ReadCBORSec(file, inv[last].pwd, DefaultSalt)
              = [data |-> inv[last].data, err |-> ErrNone]

\* the file InitConc starts from
InitialFile ==
    WriteAt(Truncated, 0, SealedData(InitialData, UserPassword, DefaultSalt, 1).ct)

\* C14: an invocation of add-url, add-qrc or remove calls WriteCBORSec at most
\* once, and only after its one ReadCBORSec returned no error and its AddEntry
\* or RemoveEntry returned nil; an invocation whose load failed or whose
\* AddEntry / RemoveEntry returned ErrEntryExists / ErrEntryNotFound has ended
\* without a WriteCBORSec call; the file changes only in a step of an
\* invocation that loaded and mutated with no error, and while no invocation
\* has called WriteCBORSec the file is the one the invocations found.
C14_CommandFlow ==
    /\ [](\A p \in Procs :
            /\ inv[p].writes <= 1 /\ inv[p].reads <= 1
            /\ inv[p].writes = 1 =>
                  /\ inv[p].reads = 1 /\ inv[p].mutated /\ inv[p].err = ErrNone
            /\ inv[p].mutated => inv[p].reads = 1
            /\ inv[p].err # ErrNone =>
                  /\ inv[p].pc = "done" /\ inv[p].writes = 0 /\ inv[p].buf = <<>>
                  /\ inv[p].reads = 1)
    /\ []((\A p \in Procs : inv[p].writes = 0) => file = InitialFile)
    /\ [][file' # file =>
            \E p \in Procs :
               /\ inv'[p] # inv[p]
               /\ inv[p].reads = 1 /\ inv[p].mutated /\ inv[p].err = ErrNone
               /\ inv'[p].writes = 1]_vars

\* one invocation ended on ErrEntryExists or ErrEntryNotFound without a
\* write, after the other loaded, mutated, saved once and ended
C14_Witness ==
    /\ \E p \in Procs :
          /\ inv[p].pc = "done" /\ inv[p].err \in {ErrEntryExists, ErrEntryNotFound}
          /\ inv[p].reads = 1 /\ inv[p].writes = 0
    /\ \E p \in Procs :
          /\ inv[p].pc = "done" /\ inv[p].err = ErrNone
          /\ inv[p].reads = 1 /\ inv[p].mutated /\ inv[p].writes = 1
    /\ file # InitialFile

(***************************************************************************)
(* SpecPath: one command of the tool resolving its database path.  The     *)
(* shell sets TOTP_DB_PATH and HOME (or leaves them unset), the command is *)
(* started with or without -d and -q, and getDBFilePath chooses the path,  *)
(* expands a leading ~/ and creates the directory.  Paths are strings.     *)
(***************************************************************************)
defaultPath == "~/.config/totp-cli/entries.db"

EnvPaths == {"", "/srv/env.db", "~/env.db"}
HomeDirs == {"", "/home/u"}
FlagPaths == {"", "/tmp/flag.db", "~/flag.db", "/srv/env.db"}

\* filepath.Join of a directory and a relative path, both clean
Join(dir, rest) == dir \o "/" \o rest

\* flagChanged: -d was given; flagValue: its value; env: TOTP_DB_PATH as viper
\* reads it; home: HOME; mkdirOk: os.MkdirAll succeeds.  A chosen path shorter
\* than two bytes makes dbPath[:2] panic.
getDBFilePath(flagChanged, flagValue, env, home, quiet, mkdirOk) ==
    LET chosen == IF flagChanged THEN flagValue
                  ELSE IF env = "" THEN defaultPath
                  ELSE env
    IN
    IF Len(chosen) < 2 THEN [dbPath |-> "", exit |-> "panic", out |-> ""]
    ELSE LET tilde == SubSeq(chosen, 1, 2) = "~/" IN
         IF tilde /\ home = ""
         THEN [dbPath |-> "", exit |-> "exit 1", out |-> "Error getting user home directory:"]
         ELSE LET dbPath == IF tilde THEN Join(home, SubSeq(chosen, 3, Len(chosen)))
                            ELSE chosen
              IN  IF ~mkdirOk
                  THEN [dbPath |-> "", exit |-> "exit 1",
                        out |-> "Error creating directory structure:"]
                  ELSE [dbPath |-> dbPath, exit |-> "return",
                        out |-> IF quiet THEN "" ELSE "Using database file: " \o dbPath]

\* the shell the command is started from
SetEnvironment(e, h) ==
    /\ cli.pc = "shell"
    /\ cli' = [cli EXCEPT !.pc = "env", !.env = e, !.home = h]
    /\ UNCHANGED <<data, ret, file, wr, saved, rd, inv, order>>

\* rootCmd.Execute parsing the persistent flags, -d not given
ParseNoDbFlag(q) ==
    /\ cli.pc = "env"
    /\ cli' = [cli EXCEPT !.pc = "parsed", !.flagChanged = FALSE, !.flag = "", !.quiet = q]
    /\ UNCHANGED <<data, ret, file, wr, saved, rd, inv, order>>

\* rootCmd.Execute parsing the persistent flags, -d given with value v
ParseDbFlag(v, q) ==
    /\ cli.pc = "env"
    /\ cli' = [cli EXCEPT !.pc = "parsed", !.flagChanged = TRUE, !.flag = v, !.quiet = q]
    /\ UNCHANGED <<data, ret, file, wr, saved, rd, inv, order>>

\* dbFilePath := getDBFilePath(cmd)
CallGetDBFilePath(mkdirOk) ==
    LET r == getDBFilePath(cli.flagChanged, cli.flag, cli.env, cli.home, cli.quiet, mkdirOk) IN
    /\ cli.pc = "parsed"
    /\ cli' = [cli EXCEPT !.pc = "resolved", !.dbPath = r.dbPath, !.exit = r.exit,
                          !.out = r.out]
    /\ UNCHANGED <<data, ret, file, wr, saved, rd, inv, order>>

NextPath ==
    \/ \E e \in EnvPaths, h \in HomeDirs : SetEnvironment(e, h)
    \/ \E q \in BOOLEAN : ParseNoDbFlag(q)
    \/ \E v \in FlagPaths, q \in BOOLEAN : ParseDbFlag(v, q)
    \/ \E ok \in BOOLEAN : CallGetDBFilePath(ok)

SpecPath == Init /\ [][NextPath]_vars

\* C13: a command started with TOTP_DB_PATH set and with -d naming another
\* path uses the path of TOTP_DB_PATH, the path it resolves when -d is not
\* given.
C13_EnvOverridesFlag ==
    (/\ cli.pc = "resolved" /\ cli.exit = "return"
     /\ cli.env # "" /\ cli.flagChanged /\ cli.flag # cli.env)
    => cli.dbPath = getDBFilePath(FALSE, "", cli.env, cli.home, cli.quiet, TRUE).dbPath

====
